---- MODULE Spec2Model ----
(***************************************************************************)
(* A model of lintblame.go (the current program, src/lintblame.go lines   *)
(* 123-646): the ModifiedTimes change tracker, its SortaSorted ordering,  *)
(* the printResults fan-out/fan-in and the polling loop of main.          *)
(*                                                                         *)
(* Five specifications share the variables:                                *)
(*   SpecAnalysis NewTargetFile and printWarts on one file                 *)
(*   SpecTracker  CheckTime called on any path while the disk changes      *)
(*   SpecSort     SortaSorted applied to a map under any traversal order   *)
(*   SpecByTime   PathsByModTime (lines 781-798) applied to such a map     *)
(*   Spec         main: initConfig, NewModifiedTimes, printResults, loop   *)
(***************************************************************************)
EXTENDS Integers, Sequences, FiniteSets, TLC

\* ---------------------------------------------------------------- bounds
\* Number of file paths the environment knows (paths are 1..NumPaths).
NumPaths == 2
\* Largest modification timestamp; timestamps are 1..MaxTime.
MaxTime == 2
\* Number of paths of the SortaSorted specification (the test uses three).
SortPaths == 3
\* Largest timestamp of the SortaSorted specification.
SortMaxTime == 3

\* Number of environment events (writes, removals, changes of the path
\* source) in one run of main.
MaxEvents == 2
\* Number of iterations of main's loop that are followed.
MaxTicks == 7
\* The number of ticks within which a modification is to be scanned.
LatencyBound == 5
\* main refreshes the file list when loopCount%5 == 0.
RefreshEvery == 5

Paths == 1..NumPaths
Times == 1..MaxTime
\* time.Time{}: the zero time, before every file's modification time.
ZeroTime == 0
\* os.Stat(path) returned an error: no timestamp can be read.
NoFile == -1

\* The map with no entries: make(map[string]time.Time).
EmptyMap == [p \in {} |-> ZeroTime]

\* All sequences that list every element of S exactly once: the orders in
\* which `range` may traverse a Go map with key set S.
Perms(S) ==
    {s \in [1..Cardinality(S) -> S] : \A i, j \in 1..Cardinality(S) : i # j => s[i] # s[j]}

VARIABLES
    disk,       \* path -> its on-disk modification time, or NoFile
    TimeMap,    \* ModifiedTimes.TimeMap: tracked path -> stored time
    hist,       \* SpecTracker: the last two tracker events
    sortTrav,   \* SpecSort: the traversal order of the last SortaSorted call
    sortResult, \* SpecSort: the slice the last SortaSorted call returned
    byTimeTrav, \* SpecByTime: the traversal order of the last PathsByModTime call
    byTimeResult, \* SpecByTime: the slice the last PathsByModTime call returned
    source,     \* the set of paths targetPaths() yields when called now
    rootOk,     \* whether targetPaths() can resolve its root (else log.Fatal)
    events,     \* number of environment events so far
    pc,         \* main's position
    ret,        \* where printResults returns to
    filepaths,  \* main's filepaths: config.InitialPaths
    loopCount,  \* main's loopCount
    passPaths,  \* printResults' filepaths: the SortaSorted order of the pass
    tasks,      \* goroutines of the current pass: path -> "run", "send", "done"
    orphans,    \* paths of goroutines of an earlier pass that are still alive
    printed,    \* the paths whose results the current pass printed, in order
    fatalAt,    \* the position at which log.Fatal ended the process
    lag,        \* path -> ticks since an undetected modification, or -1
    given,      \* the path set the latest NewModifiedTimes got from targetPaths
    quiet,      \* "pass": nothing has changed since the pass that started in
                \* this tick; "ticked": nor since, and a new tick has begun
    tf,         \* SpecAnalysis: the TargetFile that NewTargetFile builds
    apc,        \* SpecAnalysis: the position in NewTargetFile and printWarts
    wlog,       \* SpecAnalysis: tool, match and wart of every NewWart call
    shown       \* SpecAnalysis: what printWarts printed, line -> blame name

trackerVars == <<hist>>
sortVars == <<sortTrav, sortResult, byTimeTrav, byTimeResult>>
mainVars == <<source, rootOk, events, pc, ret, filepaths, loopCount, passPaths,
              tasks, orphans, printed, fatalAt, lag, given, quiet>>
fileVars == <<tf, apc, wlog, shown>>
vars == <<disk, TimeMap, trackerVars, sortVars, mainVars, fileVars>>

\* ------------------------------------------------------------ ModifiedTimes

\* A faulty CheckTime that never compares with the stored time: it reports
\* a change and stores the time for every readable path.
CheckTimeAlways(m, d, path) ==
    IF d[path] # NoFile
    THEN [ret |-> TRUE, TimeMap |-> (path :> d[path]) @@ m]
    ELSE [ret |-> FALSE, TimeMap |-> m]

\* A faulty CheckTime that reports a change of a tracked path without
\* storing it (only the time of a new path is stored).
CheckTimeNoStore(m, d, path) ==
    LET hasChanged == d[path] # NoFile /\ (path \in DOMAIN m => m[path] # d[path])
    IN  [ret |-> hasChanged,
         TimeMap |-> IF hasChanged /\ path \notin DOMAIN m
                     THEN (path :> d[path]) @@ m ELSE m]

\* A faulty CheckTime that drops the entry of a path it cannot stat.
CheckTimeDropUnreadable(m, d, path) ==
    IF d[path] = NoFile
    THEN [ret |-> path \in DOMAIN m,
          TimeMap |-> [q \in DOMAIN m \ {path} |-> m[q]]]
    ELSE LET hasChanged == path \in DOMAIN m => m[path] # d[path]
         IN  [ret |-> hasChanged,
              TimeMap |-> IF hasChanged THEN (path :> d[path]) @@ m ELSE m]

\* A faulty CheckTime that takes only a later time for a change.
CheckTimeOnlyLater(m, d, path) ==
    LET hasChanged ==
            /\ d[path] # NoFile
            /\ IF path \in DOMAIN m THEN m[path] < d[path] ELSE TRUE
    IN  [ret |-> hasChanged,
         TimeMap |-> IF hasChanged THEN (path :> d[path]) @@ m ELSE m]

\* CheckTime(path) on the map m with the disk d: the returned bool and the
\* map afterwards.
CheckTime(m, d, path) ==
    LET statOk == d[path] # NoFile
        hasChanged ==
            /\ statOk
            /\ IF path \in DOMAIN m THEN m[path] # d[path] ELSE TRUE
    IN  [ret |-> hasChanged,
         TimeMap |-> IF hasChanged THEN (path :> d[path]) @@ m ELSE m]

\* A faulty SortaSorted that prepends the more recent path, too.
SortaSortedPrependAll(m, trav) ==
    [i \in 1..Len(trav) |-> trav[Len(trav) + 1 - i]]

\* The loop of SortaSorted from the i-th traversed entry on.
RECURSIVE SortaSortedLoop(_, _, _, _, _)
SortaSortedLoop(m, trav, i, returnSlice, mostRecentTime) ==
    IF i > Len(trav) THEN returnSlice
    ELSE IF m[trav[i]] > mostRecentTime
         THEN SortaSortedLoop(m, trav, i + 1, Append(returnSlice, trav[i]), m[trav[i]])
         ELSE SortaSortedLoop(m, trav, i + 1, <<trav[i]>> \o returnSlice, mostRecentTime)

\* SortaSorted() on the map m when `range` traverses it in the order trav.
SortaSorted(m, trav) == SortaSortedLoop(m, trav, 1, <<>>, ZeroTime)

\* A faulty Len() that counts nothing.
ModifiedTimesLenZero(m) == 0

\* Len(): the number of tracked paths.
ModifiedTimesLen(m) == Cardinality(DOMAIN m)

\* The paths of the set S as a slice, in name order (ioutil.ReadDir sorts by
\* file name and filterFiles keeps the order).
RECURSIVE filterFiles(_)
filterFiles(S) ==
    IF S = {} THEN <<>>
    ELSE LET least == CHOOSE p \in S : \A q \in S : p <= q
         IN  <<least>> \o filterFiles(S \ {least})

\* targetPaths() when the path source yields the set src.
targetPaths(src) == filterFiles(src)

\* The loop of NewModifiedTimes: CheckTime on every path from the i-th on.
RECURSIVE NewModifiedTimesLoop(_, _, _, _)
NewModifiedTimesLoop(m, d, files, i) ==
    IF i > Len(files) THEN m
    ELSE NewModifiedTimesLoop(CheckTime(m, d, files[i]).TimeMap, d, files, i + 1)

\* A faulty NewModifiedTimes that fills the map it had.
NewModifiedTimesKeep(d, src) == NewModifiedTimesLoop(TimeMap, d, targetPaths(src), 1)

\* NewModifiedTimes(): a fresh map filled by CheckTime on every target path.
NewModifiedTimes(d, src) == NewModifiedTimesLoop(EmptyMap, d, targetPaths(src), 1)

\* The index of the first path of files whose CheckTime returns true, or 0:
\* the for loop of main with its break.
FirstChanged(m, d, files) ==
    LET hits == {i \in 1..Len(files) : CheckTime(m, d, files[i]).ret}
    IN  IF hits = {} THEN 0 ELSE CHOOSE i \in hits : \A j \in hits : i <= j

\* A faulty FanInCount: the receive loop stops one result early.
FanInCountShort(paths) == IF Len(paths) = 0 THEN 0 ELSE Len(paths) - 1

\* A faulty count with which printResults waits for no result.
FanInCountNone(paths) == 0

\* The number of results the for loop of printResults receives.
FanInCount(paths) == Len(paths)

\* ------------------------------------------------------------- idle parts
\* The values the variables of the other specifications keep.
TrackerIdle == hist = <<>>
SortIdle ==
    /\ sortTrav = <<>> /\ sortResult = <<>>
    /\ byTimeTrav = <<>> /\ byTimeResult = <<>>
MainIdle ==
    /\ source = {} /\ rootOk = TRUE /\ events = 0
    /\ pc = "off" /\ ret = "off" /\ filepaths = <<>> /\ loopCount = 0
    /\ passPaths = <<>> /\ tasks = <<>> /\ orphans = {} /\ printed = <<>>
    /\ fatalAt = "none" /\ lag = [p \in Paths |-> -1] /\ quiet = "no"
    /\ given = {}

FileIdle ==
    /\ tf = [Path |-> "", ContentLines |-> <<>>, BlameLines |-> <<>>, Warts |-> <<>>]
    /\ apc = "off" /\ wlog = <<>> /\ shown = <<>>

\* -------------------------------------------------------------------- Spec
Init ==
    /\ disk = [p \in Paths |-> 1]
    /\ TimeMap = EmptyMap
    /\ source \in SUBSET Paths
    /\ rootOk = TRUE /\ events = 0
    /\ pc = "initConfig" /\ ret = "observe" /\ filepaths = <<>> /\ loopCount = 0
    /\ passPaths = <<>> /\ tasks = <<>> /\ orphans = {} /\ printed = <<>>
    /\ fatalAt = "none" /\ lag = [p \in Paths |-> -1] /\ quiet = "no"
    /\ given = {}
    /\ TrackerIdle /\ SortIdle /\ FileIdle

Running == pc # "fatal"

\* log.Fatal at the position where: the process exits.
Fatal(where) == pc' = "fatal" /\ fatalAt' = where

\* ---- the environment
\* The file p is written: its modification time advances.
EnvModify(p) ==
    /\ Running /\ events < MaxEvents
    /\ disk[p] # NoFile /\ disk[p] < MaxTime
    /\ disk' = [disk EXCEPT ![p] = disk[p] + 1]
    /\ lag' = IF p \in DOMAIN TimeMap /\ lag[p] = -1
              THEN [lag EXCEPT ![p] = 0] ELSE lag
    /\ events' = events + 1
    /\ UNCHANGED <<TimeMap, fileVars, trackerVars, sortVars, source, rootOk, pc, ret,
                   filepaths, loopCount, passPaths, tasks, orphans, printed, fatalAt>>
    /\ quiet' = "no"
    /\ UNCHANGED given

\* The file p is removed.
EnvDelete(p) ==
    /\ Running /\ events < MaxEvents
    /\ disk[p] # NoFile
    /\ disk' = [disk EXCEPT ![p] = NoFile]
    /\ events' = events + 1
    /\ UNCHANGED <<TimeMap, fileVars, trackerVars, sortVars, source, rootOk, pc, ret,
                   filepaths, loopCount, passPaths, tasks, orphans, printed,
                   fatalAt, lag>>
    /\ quiet' = "no"
    /\ UNCHANGED given

\* The path source starts or stops to yield p (a file enters or leaves the
\* directory or the branch's diff).
EnvSource(p) ==
    /\ Running /\ events < MaxEvents
    /\ source' = IF p \in source THEN source \ {p} ELSE source \cup {p}
    /\ events' = events + 1
    /\ UNCHANGED <<disk, TimeMap, fileVars, trackerVars, sortVars, rootOk, pc, ret,
                   filepaths, loopCount, passPaths, tasks, orphans, printed,
                   fatalAt, lag>>
    /\ quiet' = "no"
    /\ UNCHANGED given

\* The root becomes unreadable (the directory is removed, git fails):
\* getFileInfo, getDirFiles or gitBranchFiles will call log.Fatal.
EnvRootLost ==
    /\ Running /\ events < MaxEvents
    /\ rootOk
    /\ rootOk' = FALSE
    /\ events' = events + 1
    /\ UNCHANGED <<disk, TimeMap, fileVars, trackerVars, sortVars, source, pc, ret,
                   filepaths, loopCount, passPaths, tasks, orphans, printed,
                   fatalAt, lag>>
    /\ quiet' = "no"
    /\ UNCHANGED given

\* ---- main
\* initConfig(): config.InitialPaths = targetPaths(); filepaths := it.
InitConfig ==
    /\ pc = "initConfig"
    /\ IF rootOk
       THEN /\ filepaths' = targetPaths(source)
            /\ pc' = "NewModifiedTimes"
            /\ UNCHANGED fatalAt
       ELSE /\ Fatal("initConfig")
            /\ UNCHANGED filepaths
    /\ UNCHANGED <<disk, TimeMap, fileVars, trackerVars, sortVars, source, rootOk, events,
                   ret, loopCount, passPaths, tasks, orphans, printed, lag>>
    /\ UNCHANGED quiet
    /\ UNCHANGED given

\* modTimes := NewModifiedTimes(), then printResults(*modTimes).
MainNewModifiedTimes ==
    /\ pc = "NewModifiedTimes"
    /\ IF rootOk
       THEN /\ TimeMap' = NewModifiedTimes(disk, source)
            /\ pc' = "printResults" /\ ret' = "observe"
            /\ UNCHANGED fatalAt
       ELSE /\ Fatal("NewModifiedTimes")
            /\ UNCHANGED <<TimeMap, ret>>
    /\ UNCHANGED <<disk, fileVars, trackerVars, sortVars, source, rootOk, events,
                   filepaths, loopCount, passPaths, tasks, orphans, printed, lag>>
    /\ UNCHANGED quiet
    /\ given' = IF rootOk THEN source ELSE given

\* printResults up to the end of its fan-out: SortaSorted, a fresh channel
\* and one goroutine per path.
PrintResultsFanOut ==
    /\ pc = "printResults"
    /\ \E trav \in Perms(DOMAIN TimeMap) :
          passPaths' = SortaSorted(TimeMap, trav)
    /\ tasks' = [p \in {passPaths'[i] : i \in 1..Len(passPaths')} |-> "run"]
    /\ printed' = <<>>
    /\ lag' = [p \in Paths |-> -1]
    /\ pc' = "fanin"
    /\ UNCHANGED <<disk, TimeMap, fileVars, trackerVars, sortVars, source, rootOk, events,
                   ret, filepaths, loopCount, orphans, fatalAt>>
    /\ quiet' = "pass"
    /\ UNCHANGED given

\* makeTargetFile(p, c) up to its send: NewTargetFile reads the file (and
\* calls log.Fatal if it cannot), runs git blame and the analyzers, none of
\* which can fail it; the goroutine then blocks on c <- tf.
MakeTargetFile(p) ==
    /\ Running
    /\ p \in DOMAIN tasks /\ tasks[p] = "run"
    /\ IF disk[p] = NoFile
       THEN /\ Fatal("NewTargetFile")
            /\ UNCHANGED tasks
       ELSE /\ tasks' = [tasks EXCEPT ![p] = "send"]
            /\ UNCHANGED <<pc, fatalAt>>
    /\ UNCHANGED <<disk, TimeMap, fileVars, trackerVars, sortVars, source, rootOk, events,
                   ret, filepaths, loopCount, passPaths, orphans, printed, lag>>
    /\ UNCHANGED quiet
    /\ UNCHANGED given

\* One iteration of the receive loop: tf := <-c meets the send of a
\* goroutine of this pass; printWarts(tf).
PrintResultsReceive(p) ==
    /\ pc = "fanin"
    /\ Len(printed) < FanInCount(passPaths)
    /\ p \in DOMAIN tasks /\ tasks[p] = "send"
    /\ printed' = Append(printed, p)
    /\ tasks' = [tasks EXCEPT ![p] = "done"]
    /\ UNCHANGED <<disk, TimeMap, fileVars, trackerVars, sortVars, source, rootOk, events,
                   pc, ret, filepaths, loopCount, passPaths, orphans, fatalAt, lag>>
    /\ UNCHANGED quiet
    /\ UNCHANGED given

\* The receive loop is over: printResults goes on to print the duration.
PrintResultsLoopExit ==
    /\ pc = "fanin"
    /\ Len(printed) >= FanInCount(passPaths)
    /\ pc' = "passDone"
    /\ UNCHANGED <<disk, TimeMap, fileVars, trackerVars, sortVars, source, rootOk, events,
                   ret, filepaths, loopCount, passPaths, tasks, orphans, printed,
                   fatalAt, lag>>
    /\ UNCHANGED quiet
    /\ UNCHANGED given

\* printResults returns: its locals (filepaths, the channel c) are gone;
\* goroutines that have not sent yet stay blocked on the channel.
PrintResultsReturn ==
    /\ pc = "passDone"
    /\ pc' = ret
    /\ orphans' = orphans \cup {p \in DOMAIN tasks : tasks[p] # "done"}
    /\ passPaths' = <<>> /\ tasks' = <<>> /\ printed' = <<>>
    /\ UNCHANGED <<disk, TimeMap, fileVars, trackerVars, sortVars, source, rootOk, events,
                   ret, filepaths, loopCount, fatalAt, lag>>
    /\ UNCHANGED quiet
    /\ UNCHANGED given

\* The for loop over filepaths with its break, and `if runUpdate`.
Observe ==
    /\ pc = "observe"
    /\ LET k == FirstChanged(TimeMap, disk, filepaths)
       IN  IF k = 0
           THEN /\ pc' = "refresh"
                /\ UNCHANGED <<TimeMap, ret>>
           ELSE /\ TimeMap' = CheckTime(TimeMap, disk, filepaths[k]).TimeMap
                /\ pc' = "printResults" /\ ret' = "refresh"
    /\ UNCHANGED <<disk, fileVars, trackerVars, sortVars, source, rootOk, events,
                   filepaths, loopCount, passPaths, tasks, orphans, printed,
                   fatalAt, lag>>
    /\ quiet' = IF quiet = "pass" THEN "ticked" ELSE quiet
    /\ UNCHANGED given

\* `if loopCount%5 == 0`: the file list is rebuilt, and printed again if
\* its length changed.
Refresh ==
    /\ pc = "refresh"
    /\ IF loopCount % RefreshEvery # 0
       THEN /\ pc' = "sleep"
            /\ UNCHANGED <<TimeMap, ret, fatalAt, lag>>
       ELSE IF ~rootOk
       THEN /\ Fatal("refresh")
            /\ UNCHANGED <<TimeMap, ret, lag>>
       ELSE /\ TimeMap' = NewModifiedTimes(disk, source)
            /\ lag' = [p \in Paths |-> IF p \in DOMAIN TimeMap' THEN lag[p] ELSE -1]
            /\ IF ModifiedTimesLen(TimeMap') # ModifiedTimesLen(TimeMap)
               THEN pc' = "printResults" /\ ret' = "sleep"
               ELSE pc' = "sleep" /\ UNCHANGED ret
            /\ UNCHANGED fatalAt
    /\ UNCHANGED <<disk, fileVars, trackerVars, sortVars, source, rootOk, events,
                   filepaths, loopCount, passPaths, tasks, orphans, printed>>
    /\ UNCHANGED quiet
    /\ given' = IF loopCount % RefreshEvery = 0 /\ rootOk THEN source ELSE given

\* time.Sleep(1 * time.Second); loopCount += 1.
Sleep ==
    /\ pc = "sleep"
    /\ loopCount < MaxTicks
    /\ loopCount' = loopCount + 1
    /\ lag' = [p \in Paths |->
                 IF lag[p] = -1 \/ lag[p] > LatencyBound THEN lag[p] ELSE lag[p] + 1]
    /\ pc' = "observe"
    /\ UNCHANGED <<disk, TimeMap, fileVars, trackerVars, sortVars, source, rootOk, events,
                   ret, filepaths, passPaths, tasks, orphans, printed, fatalAt>>
    /\ UNCHANGED quiet
    /\ UNCHANGED given

Next ==
    \/ \E p \in Paths : EnvModify(p)
    \/ \E p \in Paths : EnvDelete(p)
    \/ \E p \in Paths : EnvSource(p)
    \/ EnvRootLost
    \/ InitConfig
    \/ MainNewModifiedTimes
    \/ PrintResultsFanOut
    \/ \E p \in Paths : MakeTargetFile(p)
    \/ \E p \in Paths : PrintResultsReceive(p)
    \/ PrintResultsLoopExit
    \/ PrintResultsReturn
    \/ Observe
    \/ Refresh
    \/ Sleep

Spec == Init /\ [][Next]_vars

\* The positions of main's loop: no pass is under way.
InLoop == pc \in {"observe", "refresh", "sleep"}

\* ------------------------------------------------------------- Spec claims
\* C1: every modification of a tracked file is followed, within a bounded
\* number of ticks (here one refresh period), by a scanning pass that
\* starts after it, whatever the interleaving with the controller's steps.
C1_BoundedLatency == \A p \in Paths : lag[p] <= LatencyBound

\* C2: when the receive loop of a pass is over, the results were printed in
\* the SortaSorted order of the dispatched paths, whatever the order in
\* which the goroutines completed.
C2_PresentationOrder == pc = "passDone" => printed = passPaths

\* C3: a file that cannot be read degrades its own result only: no pass is
\* aborted because NewTargetFile failed on one of its files.
C3_FailureIsolation == ~(pc = "fatal" /\ fatalAt = "NewTargetFile")

\* C4: the process ends on an initial-setup error only (initConfig,
\* NewModifiedTimes and the first printResults before the loop), never
\* because of an error in a tick, a pass or a refresh of the loop.
C4_OnlySetupFatal ==
    pc = "fatal" =>
        \/ fatalAt \in {"initConfig", "NewModifiedTimes"}
        \/ fatalAt = "NewTargetFile" /\ ret = "observe"

\* C10: a pass starts exactly one goroutine per tracked path; when its
\* receive loop is over it has received exactly one result from each of
\* them and none of them is running or blocked on its send; no goroutine
\* outlives its pass, so none can meet the receive of another pass.
C10_FanInComplete ==
    /\ orphans = {}
    /\ pc \in {"fanin", "passDone"} =>
          /\ DOMAIN tasks = DOMAIN TimeMap
          /\ Len(passPaths) = Cardinality(DOMAIN tasks)
          /\ Len(printed) = Cardinality({p \in DOMAIN tasks : tasks[p] = "done"})
          /\ \A i \in 1..Len(printed) : tasks[printed[i]] = "done"
    /\ pc = "passDone" =>
          /\ \A p \in DOMAIN tasks : tasks[p] = "done"
          /\ Len(printed) = Len(passPaths)
          /\ \A p \in DOMAIN tasks :
                Cardinality({i \in 1..Len(printed) : printed[i] = p}) = 1

\* A pass of the loop over two paths has received both results, which
\* arrived in the other order than dispatched.
C10_Witness ==
    /\ pc = "passDone" /\ ret # "observe"
    /\ Len(passPaths) = 2
    /\ printed = <<passPaths[2], passPaths[1]>>
    /\ \A p \in DOMAIN tasks : tasks[p] = "done"

\* ------------------------------------------------------------- SpecTracker
\* The last two events of h followed by e.
Last2(h, e) == IF Len(h) < 2 THEN Append(h, e) ELSE <<h[2], e>>

InitTracker ==
    /\ disk \in [Paths -> Times \cup {NoFile}]
    /\ TimeMap = EmptyMap
    /\ TrackerIdle /\ SortIdle /\ MainIdle /\ FileIdle

\* A caller observes the path p.
TrkCheckTime(p) ==
    LET r == CheckTime(TimeMap, disk, p)
    IN  /\ TimeMap' = r.TimeMap
        /\ hist' = Last2(hist, [op |-> "CheckTime", path |-> p, ret |-> r.ret,
                                before |-> TimeMap, after |-> r.TimeMap,
                                stat |-> disk[p]])
        /\ UNCHANGED <<disk, sortVars, mainVars, fileVars>>

\* The file p is written, replaced by an older copy, removed or created.
TrkSetDisk(p, t) ==
    /\ t # disk[p]
    /\ disk' = [disk EXCEPT ![p] = t]
    /\ hist' = Last2(hist, [op |-> "SetDisk", path |-> p, ret |-> FALSE,
                            before |-> TimeMap, after |-> TimeMap, stat |-> t])
    /\ UNCHANGED <<TimeMap, sortVars, mainVars, fileVars>>

NextTracker ==
    \/ \E p \in Paths : TrkCheckTime(p)
    \/ \E p \in Paths, t \in Times \cup {NoFile} : TrkSetDisk(p, t)

SpecTracker == InitTracker /\ [][NextTracker]_vars

\* ---------------------------------------------------------------- SpecSort
InitSort ==
    /\ \E S \in SUBSET (1..SortPaths) : TimeMap \in [S -> 1..SortMaxTime]
    /\ disk = [p \in Paths |-> NoFile]
    /\ TrackerIdle /\ SortIdle /\ MainIdle /\ FileIdle

\* SortaSorted is called; `range` picks any traversal order.
SortCall ==
    /\ \E trav \in Perms(DOMAIN TimeMap) :
          /\ sortTrav' = trav
          /\ sortResult' = SortaSorted(TimeMap, trav)
    /\ UNCHANGED <<disk, TimeMap, trackerVars, mainVars, fileVars,
                   byTimeTrav, byTimeResult>>

NextSort == SortCall

SpecSort == InitSort /\ [][NextSort]_vars

\* SortaSorted has been called on TimeMap.
SortCalled == sortTrav # <<>> \/ DOMAIN TimeMap = {}

\* The paths of s are in non-decreasing order of their time in m.
OldestFirst(m, s) == \A i, j \in 1..Len(s) : i < j => m[s[i]] < m[s[j]]

\* C5: for a tracker holding three paths with pairwise distinct timestamps,
\* SortaSorted returns them oldest first and most recent last, whatever the
\* order in which the map is traversed (the test's case: abc = now-1 day,
\* def = now, ghi = now-2 days, paths 1, 2, 3, gives [ghi, abc, def]).
C5_OldestFirst ==
    (/\ SortCalled
     /\ Cardinality(DOMAIN TimeMap) = 3
     /\ \A p, q \in DOMAIN TimeMap : p # q => TimeMap[p] # TimeMap[q])
    => OldestFirst(TimeMap, sortResult)

\* C9: SortaSorted returns every tracked path exactly once, and a path whose
\* timestamp is strictly greater than every other one is the last element,
\* for every traversal order.
C9_EachOnceMaxLast ==
    SortCalled =>
        /\ Len(sortResult) = Cardinality(DOMAIN TimeMap)
        /\ \A p \in DOMAIN TimeMap : \E i \in 1..Len(sortResult) : sortResult[i] = p
        /\ \A p \in DOMAIN TimeMap :
              (\A q \in DOMAIN TimeMap \ {p} : TimeMap[q] < TimeMap[p])
              => sortResult[Len(sortResult)] = p

\* A call on three paths in which the strictly most recent path was not
\* traversed last and an older path was traversed after it.
C9_Witness ==
    /\ Len(sortTrav) = 3
    /\ \E p \in DOMAIN TimeMap :
          /\ \A q \in DOMAIN TimeMap \ {p} : TimeMap[q] < TimeMap[p]
          /\ sortTrav[1] = p
          /\ sortResult[3] = p
    /\ TimeMap[sortTrav[2]] < TimeMap[sortTrav[3]]

\* ------------------------------------------------------ SpecTracker claims
\* The event e is a CheckTime of a tracked, readable path whose on-disk time
\* is later than the stored one.
Advanced(e) ==
    /\ e.op = "CheckTime"
    /\ e.path \in DOMAIN e.before
    /\ e.stat # NoFile
    /\ e.stat > e.before[e.path]

\* C6: when a tracked path's on-disk timestamp has advanced, CheckTime
\* returns true and stores the new timestamp, and a CheckTime of the same
\* path that follows with no change on disk in between returns false.
C6_TrueOncePerAdvance ==
    \A i \in 1..Len(hist) :
        Advanced(hist[i]) =>
            /\ hist[i].ret = TRUE
            /\ hist[i].path \in DOMAIN hist[i].after
            /\ hist[i].after[hist[i].path] = hist[i].stat
            /\ (i < Len(hist) /\ hist[i + 1].op = "CheckTime"
                    /\ hist[i + 1].path = hist[i].path)
               => (hist[i + 1].ret = FALSE /\ hist[i + 1].after = hist[i].after)

\* An advance was observed and the same path was observed again at once.
C6_Witness ==
    /\ Len(hist) = 2
    /\ Advanced(hist[1])
    /\ hist[2].op = "CheckTime" /\ hist[2].path = hist[1].path
    /\ hist[2].ret = FALSE

\* C7: CheckTime of a tracked path whose on-disk timestamp equals the stored
\* one returns false and leaves every entry of the map as it was.
C7_UnchangedIsFalse ==
    \A i \in 1..Len(hist) :
        (/\ hist[i].op = "CheckTime"
         /\ hist[i].path \in DOMAIN hist[i].before
         /\ hist[i].stat = hist[i].before[hist[i].path])
        => /\ hist[i].ret = FALSE
           /\ hist[i].after = hist[i].before
           /\ (i = Len(hist) => TimeMap = hist[i].before)

\* Two paths are tracked and one of them, unchanged on disk, was observed.
C7_Witness ==
    /\ Len(hist) > 0
    /\ LET e == hist[Len(hist)]
       IN  /\ e.op = "CheckTime"
           /\ Cardinality(DOMAIN e.before) = 2
           /\ e.stat = e.before[e.path]
           /\ e.ret = FALSE

\* C8: CheckTime of a path that cannot be stat'ed returns false and leaves
\* the map unchanged: a tracked path keeps its entry and its stored time, an
\* untracked path is not added.
C8_UnreadableNoChange ==
    \A i \in 1..Len(hist) :
        (hist[i].op = "CheckTime" /\ hist[i].stat = NoFile)
        => /\ hist[i].ret = FALSE
           /\ hist[i].after = hist[i].before
           /\ (i = Len(hist) => TimeMap = hist[i].before)

\* An unreadable untracked path and then an unreadable tracked path were
\* observed.
C8_Witness ==
    /\ Len(hist) = 2
    /\ hist[1].op = "CheckTime" /\ hist[1].stat = NoFile
    /\ hist[1].path \notin DOMAIN hist[1].before
    /\ hist[2].op = "CheckTime" /\ hist[2].stat = NoFile
    /\ hist[2].path \in DOMAIN hist[2].before
    /\ hist[2].path \in DOMAIN TimeMap

\* C14 as stated: the stored time of a tracked path never decreases in a
\* CheckTime.
C14_NonDecreasing ==
    \A i \in 1..Len(hist) :
        (hist[i].op = "CheckTime" /\ hist[i].path \in DOMAIN hist[i].before)
        => /\ hist[i].path \in DOMAIN hist[i].after
           /\ hist[i].after[hist[i].path] >= hist[i].before[hist[i].path]

\* C14, amended: the stored time of a tracked path decreases in a CheckTime
\* exactly when the on-disk time read is earlier than the stored one; then
\* CheckTime stores the earlier time and returns true.
C14_DecreasesOnlyToDisk ==
    \A i \in 1..Len(hist) :
        (hist[i].op = "CheckTime" /\ hist[i].path \in DOMAIN hist[i].before)
        => LET e == hist[i]
               earlier == e.stat # NoFile /\ e.stat < e.before[e.path]
           IN  /\ e.path \in DOMAIN e.after
               /\ (e.after[e.path] < e.before[e.path]) <=> earlier
               /\ earlier => (e.after[e.path] = e.stat /\ e.ret = TRUE)

\* A tracked path was observed with an on-disk time earlier than the stored
\* one.
C14_Witness ==
    \E i \in 1..Len(hist) :
        /\ hist[i].op = "CheckTime"
        /\ hist[i].path \in DOMAIN hist[i].before
        /\ hist[i].stat # NoFile
        /\ hist[i].stat < hist[i].before[hist[i].path]
        /\ TimeMap[hist[i].path] <= hist[i].stat


\* ------------------------------------------------------------ SpecAnalysis
\* Strings are sequences of characters. A line of a tool's output is the
\* sequence of the fields the tool prints, in the tool's order; the regular
\* expression of an adapter picks its groups out of them.

\* Number of output lines one tool prints for the file.
MaxOut == 1
\* Largest number of lines of the file's content.
MaxLines == 2

DigitChars == <<"0", "1", "2", "3", "4", "5", "6", "7", "8", "9">>
IsDigit(c) == \E i \in 1..10 : DigitChars[i] = c
DigitVal(c) == (CHOOSE i \in 1..10 : DigitChars[i] = c) - 1

\* strconv.ParseInt(s, 10, 0): the value, or err for anything but digits
\* (the strings here are too short to overflow an int).
RECURSIVE ParseIntLoop(_, _, _)
ParseIntLoop(s, i, acc) ==
    IF i > Len(s) THEN acc
    ELSE ParseIntLoop(s, i + 1, acc * 10 + DigitVal(s[i]))
ParseInt(s) ==
    IF s = <<>> \/ \E i \in 1..Len(s) : ~IsDigit(s[i])
    THEN [val |-> 0, err |-> TRUE]
    ELSE [val |-> ParseIntLoop(s, 1, 0), err |-> FALSE]

\* strings.TrimSpace.
RECURSIVE TrimSpace(_)
TrimSpace(s) ==
    IF s = <<>> THEN s
    ELSE IF s[1] = " " THEN TrimSpace(Tail(s))
    ELSE IF s[Len(s)] = " " THEN TrimSpace(SubSeq(s, 1, Len(s) - 1))
    ELSE s

\* What NewWart leaves behind when log.Fatalf ends the process.
FatalWart == [Reporter |-> "log.Fatalf", Line |-> 0, Column |-> 0,
              IssueCode |-> <<>>, Message |-> <<>>]

\* NewWart(reporter, line, column, issueCode, message).
NewWart(reporter, line, column, issueCode, message) ==
    LET line64 == ParseInt(line)
        col64 == ParseInt(column)
    IN  IF line64.err \/ col64.err THEN FatalWart
        ELSE [Reporter |-> reporter, Line |-> line64.val, Column |-> col64.val,
              IssueCode |-> issueCode, Message |-> message]

\* The groups rexes["pep8"] captures in the line `file:LINE:COL: CODE MSG`,
\* by Go's group number (group 0 is the whole match).
Pep8Groups(raw) == [i \in 0..4 |-> IF i = 0 THEN <<>> ELSE raw[i + 1]]
\* The groups rexes["pylint"] captures in the line `C: LINE, COL: MSG`.
PylintGroups(raw) == [i \in 0..4 |-> IF i = 0 THEN <<>> ELSE raw[i]]
\* The groups rexes["goBuild"] captures in the line `file:LINE: MSG`.
GoBuildGroups(raw) == [i \in 0..2 |-> IF i = 0 THEN <<>> ELSE raw[i + 1]]

\* The wart Pep8 makes of a match.
Pep8Wart(group) == NewWart("PEP8", group[1], group[2], group[3], group[4])

\* A faulty PyLintWart that takes the groups in PEP8's order.
PyLintWartPep8Order(group) ==
    NewWart("Pylint", group[1], group[2], group[3], group[4])

\* The wart PyLint makes of a match.
PyLintWart(group) == NewWart("Pylint", group[2], group[3], group[1], group[4])

\* The wart GoCmd(goCmd) makes of a match.
GoCmdWart(goCmd, group) == NewWart(goCmd, group[1], <<"0">>, <<"-">>, group[2])

\* A faulty AddWart that puts the new wart in front of the line's warts.
AddWartInFront(t, wart) ==
    [t EXCEPT !.Warts =
        IF wart.Line \in DOMAIN t.Warts
        THEN [t.Warts EXCEPT ![wart.Line] = <<wart>> \o @]
        ELSE (wart.Line :> <<wart>>) @@ t.Warts]

\* tf.AddWart(wart) on the TargetFile t.
AddWart(t, wart) ==
    [t EXCEPT !.Warts =
        IF wart.Line \in DOMAIN t.Warts
        THEN [t.Warts EXCEPT ![wart.Line] = Append(@, wart)]
        ELSE (wart.Line :> <<wart>>) @@ t.Warts]

\* The `for _, group := range parsed` loops: AddWart of every wart in turn.
RECURSIVE AddWarts(_, _, _)
AddWarts(t, warts, i) ==
    IF i > Len(warts) THEN t ELSE AddWarts(AddWart(t, warts[i]), warts, i + 1)

\* What a runtime panic (index out of range) leaves instead of a name.
Panic == <<"panic">>

\* A faulty BlameName without the test for an empty tf.BlameLines.
BlameNameNoTest(t, line) ==
    IF line - 1 < 0 \/ line - 1 >= Len(t.BlameLines) THEN Panic
    ELSE IF t.BlameLines[line] = <<>> THEN Panic
    ELSE TrimSpace(t.BlameLines[line])

\* tf.BlameName(line). A blame line is modelled by what rexes["blameName"]
\* captures in it (the name and the blanks before the year), or <<>> when the
\* expression does not match, in which case match[1] panics.
BlameName(t, line) ==
    IF Len(t.BlameLines) = 0 THEN <<"-">>
    ELSE IF line - 1 < 0 \/ line - 1 >= Len(t.BlameLines) THEN Panic
    ELSE IF t.BlameLines[line] = <<>> THEN Panic
    ELSE TrimSpace(t.BlameLines[line])

\* ---- the inputs
SeqsUpTo(S, n) == UNION {[1..k -> S] : k \in 0..n}
Exts == {".py", ".go"}
\* Line and column numbers as the tools print them.
LineStrs == {<<"0">>, <<"1">>, <<"2">>, <<"1", "2">>}
ColStrs == {<<"0">>, <<"4">>}
FileStr == <<"f">>
Pep8Raws == {<<FileStr, l, c, <<"E">>, <<"m">>>> : l \in LineStrs, c \in ColStrs}
PylintRaws == {<<<<"W">>, l, c, <<"n">>>> : l \in LineStrs, c \in ColStrs}
GoRaws == {<<FileStr, l, <<"g">>>> : l \in LineStrs}
\* git blame's output split at "\n": one line per line of the file, each
\* with an author, and the empty string after the last "\n".
BlameSplit(k) == {b \o <<<<>>>> : b \in [1..k -> {<<"a", " ">>, <<"b", "b", " ">>}]}
\* The file's n content lines are its lines, or its lines and the empty
\* string after a final "\n".
BlameOutputs(n) == BlameSplit(n) \cup BlameSplit(n - 1)

\* The warts the adapters make of the matches in the output out, in order.
Pep8Warts(out) == [i \in 1..Len(out) |-> Pep8Wart(Pep8Groups(out[i]))]
PyLintWarts(out) == [i \in 1..Len(out) |-> PyLintWart(PylintGroups(out[i]))]
GoCmdWarts(goCmd, out) ==
    [i \in 1..Len(out) |-> GoCmdWart(goCmd, GoBuildGroups(out[i]))]
LogOf(tool, out, warts) ==
    [i \in 1..Len(out) |-> [tool |-> tool, raw |-> out[i], wart |-> warts[i]]]

InitAnalysis ==
    /\ \E ext \in Exts :
          tf = [Path |-> ext, ContentLines |-> <<>>, BlameLines |-> <<>>, Warts |-> <<>>]
    /\ apc = "ReadFile" /\ wlog = <<>> /\ shown = <<>>
    /\ disk = [p \in Paths |-> NoFile] /\ TimeMap = EmptyMap
    /\ TrackerIdle /\ SortIdle /\ MainIdle

AnalysisFrame == UNCHANGED <<disk, TimeMap, trackerVars, sortVars, mainVars>>

\* ioutil.ReadFile and strings.Split of the content (which has at least one
\* element), or log.Fatal.
AReadFile ==
    /\ apc = "ReadFile"
    /\ \/ /\ apc' = "fatal"
          /\ UNCHANGED tf
       \/ \E n \in 1..MaxLines :
            /\ tf' = [tf EXCEPT !.ContentLines = [i \in 1..n |-> <<"x">>]]
            /\ apc' = "Blame"
    /\ UNCHANGED <<wlog, shown>> /\ AnalysisFrame

\* tf.Blame(): git blame fails, or its output is split into lines.
ABlame ==
    /\ apc = "Blame"
    /\ \E b \in {<<>>} \cup BlameOutputs(Len(tf.ContentLines)) :
          tf' = [tf EXCEPT !.BlameLines = b]
    /\ apc' = "Pep8"
    /\ UNCHANGED <<wlog, shown>> /\ AnalysisFrame

\* An adapter that applies to the file runs its tool, which prints out (it
\* prints nothing, too, when it fails), and adds a wart for every match.
RunAdapter(tool, out, warts, next) ==
    IF \E i \in 1..Len(warts) : warts[i] = FatalWart
    THEN apc' = "fatal" /\ UNCHANGED <<tf, wlog>>
    ELSE /\ tf' = AddWarts(tf, warts, 1)
         /\ wlog' = wlog \o LogOf(tool, out, warts)
         /\ apc' = next

\* tf.Pep8().
APep8 ==
    /\ apc = "Pep8"
    /\ IF tf.Path # ".py"
       THEN apc' = "PyLint" /\ UNCHANGED <<tf, wlog>>
       ELSE \E out \in SeqsUpTo(Pep8Raws, MaxOut) :
              RunAdapter("PEP8", out, Pep8Warts(out), "PyLint")
    /\ UNCHANGED shown /\ AnalysisFrame

\* tf.PyLint().
APyLint ==
    /\ apc = "PyLint"
    /\ IF tf.Path # ".py"
       THEN apc' = "GoBuild" /\ UNCHANGED <<tf, wlog>>
       ELSE \E out \in SeqsUpTo(PylintRaws, MaxOut) :
              RunAdapter("Pylint", out, PyLintWarts(out), "GoBuild")
    /\ UNCHANGED shown /\ AnalysisFrame

\* tf.GoCmd(goCmd), the body of GoBuild and GoVet.
GoCmd(goCmd, next) ==
    IF tf.Path # ".go"
    THEN apc' = next /\ UNCHANGED <<tf, wlog>>
    ELSE \E out \in SeqsUpTo(GoRaws, MaxOut) :
           RunAdapter(goCmd, out, GoCmdWarts(goCmd, out), next)

\* tf.GoBuild().
AGoBuild ==
    /\ apc = "GoBuild"
    /\ GoCmd("build", "GoVet")
    /\ UNCHANGED shown /\ AnalysisFrame

\* tf.GoVet(); NewTargetFile returns.
AGoVet ==
    /\ apc = "GoVet"
    /\ GoCmd("vet", "printWarts")
    /\ UNCHANGED shown /\ AnalysisFrame

\* printWarts(tf): for every line of the index, BlameName(line) and
\* ContentLines[line-1]; an index out of range panics.
APrintWarts ==
    /\ apc = "printWarts"
    /\ IF \E line \in DOMAIN tf.Warts :
            \/ BlameName(tf, line) = Panic
            \/ line - 1 < 0 \/ line - 1 >= Len(tf.ContentLines)
       THEN apc' = "panic" /\ UNCHANGED shown
       ELSE /\ shown' = [line \in DOMAIN tf.Warts |-> BlameName(tf, line)]
            /\ apc' = "printed"
    /\ UNCHANGED <<tf, wlog>> /\ AnalysisFrame

NextAnalysis ==
    \/ AReadFile
    \/ ABlame
    \/ APep8
    \/ APyLint
    \/ AGoBuild
    \/ AGoVet
    \/ APrintWarts

SpecAnalysis == InitAnalysis /\ [][NextAnalysis]_vars

\* NewTargetFile has returned the TargetFile.
Analysed == apc \in {"printWarts", "printed", "panic"}

\* The place of an adapter in NewTargetFile's calls.
AdapterRank(tool) ==
    CASE tool = "PEP8" -> 1 [] tool = "Pylint" -> 2 [] tool = "build" -> 3 [] tool = "vet" -> 4

\* The warts the adapters have made for the line l, in the order made.
WartsMadeFor(l) ==
    LET made == SelectSeq(wlog, LAMBDA e : e.wart.Line = l)
    IN  [i \in 1..Len(made) |-> made[i].wart]

\* C11: the adapters run in the order PEP8, Pylint, go build, go vet, and the
\* index holds, for every line, exactly the warts made for that line in the
\* order they were made; it is empty when no adapter has reported anything.
C11_AdapterOrder ==
    /\ \A i, j \in 1..Len(wlog) :
          i < j => AdapterRank(wlog[i].tool) <= AdapterRank(wlog[j].tool)
    /\ DOMAIN tf.Warts = {wlog[i].wart.Line : i \in 1..Len(wlog)}
    /\ \A l \in DOMAIN tf.Warts : tf.Warts[l] = WartsMadeFor(l)
    /\ (wlog = <<>>) => (tf.Warts = <<>>)

\* PEP8 and Pylint have both reported on one line of an analysed file.
C11_Witness ==
    /\ Analysed
    /\ \E l \in DOMAIN tf.Warts :
          /\ Len(tf.Warts[l]) = 2
          /\ tf.Warts[l][1].Reporter = "PEP8"
          /\ tf.Warts[l][2].Reporter = "Pylint"

\* The line numbers the tools' output can carry.
LineNumbers == {ParseInt(l).val : l \in LineStrs}

\* tf.Blame() has run and git blame failed, so there are no attribution lines.
BlameFailed ==
    /\ apc \in {"Pep8", "PyLint", "GoBuild", "GoVet", "printWarts", "printed", "panic"}
    /\ Len(tf.BlameLines) = 0

Unknown == <<"u", "n", "k", "n", "o", "w", "n">>

Number ==
    (<<"0">> :> 0) @@ (<<"1">> :> 1) @@ (<<"2">> :> 2) @@ (<<"4">> :> 4)
        @@ (<<"1", "2">> :> 12)

\* The wart the claim expects of a line of a tool's output.
ExpectedWart(tool, raw) ==
    CASE tool = "Pylint" ->
            [Reporter |-> "Pylint", Line |-> Number[raw[2]], Column |-> Number[raw[3]],
             IssueCode |-> raw[1], Message |-> raw[4]]
      [] tool = "PEP8" ->
            [Reporter |-> "PEP8", Line |-> Number[raw[2]], Column |-> Number[raw[3]],
             IssueCode |-> raw[4], Message |-> raw[5]]
      [] tool \in {"build", "vet"} ->
            [Reporter |-> tool, Line |-> Number[raw[2]], Column |-> 0,
             IssueCode |-> <<"-">>, Message |-> raw[3]]

\* C13: every adapter makes of a line of its tool's output the wart with the
\* tool's fields in the tool's own order (Pylint: letter, line, column,
\* message; PEP8: line, column, code, message; go build and go vet: line,
\* message, with column 0 and code "-"), and no output line ends the process.
C13_FieldMapping ==
    /\ \A i \in 1..Len(wlog) : wlog[i].wart = ExpectedWart(wlog[i].tool, wlog[i].raw)
    /\ apc = "fatal" => tf.ContentLines = <<>>

\* Pylint has printed `W: 12, 4: n` and PEP8 a line, and both became warts.
C13_Witness ==
    /\ Analysed
    /\ \E i, j \in 1..Len(wlog) :
          /\ wlog[i].tool = "PEP8"
          /\ wlog[j].tool = "Pylint"
          /\ wlog[j].raw = <<<<"W">>, <<"1", "2">>, <<"4">>, <<"n">>>>
          /\ wlog[j].wart.Line = 12 /\ wlog[j].wart.Column = 4
          /\ wlog[j].wart.IssueCode = <<"W">>

\* C15: every key of tf.Warts is a line number between 1 and the number of
\* content lines, so printWarts' ContentLines[line-1] is never out of range.
C15_KeysInRange ==
    /\ \A line \in DOMAIN tf.Warts : 1 <= line /\ line <= Len(tf.ContentLines)
    /\ apc = "panic" =>
          \E line \in DOMAIN tf.Warts : BlameName(tf, line) = Panic

\* ------------------------------------------------------- Spec: main's loop
\* A tracked path for which CheckTime would return true.
SomeTrackedChanged == \E p \in DOMAIN TimeMap : CheckTime(TimeMap, disk, p).ret

\* C16: the observe loop of a tick covers every tracked path, those a
\* refresh has added included: when CheckTime would return true for a
\* tracked path, the tick goes on to printResults.
C16_ObserveEveryTracked ==
    [][(pc = "observe" /\ pc' # "observe" /\ SomeTrackedChanged)
            => pc' = "printResults"]_vars

\* The step of main from `if loopCount%5 == 0` to time.Sleep or into
\* printResults (no other step leaves the position "refresh").
RefreshStep == pc = "refresh" /\ pc' # "refresh"

\* C17: the file list is rebuilt on the ticks 0, 5, 10, ... (or the process
\* ends in the attempt) and on no other tick, and printResults follows the
\* rebuilding exactly when the number of tracked paths has changed.
C17_RefreshCadence ==
    [][RefreshStep =>
          IF loopCount % 5 # 0
          THEN TimeMap' = TimeMap /\ pc' = "sleep"
          ELSE \/ pc' = "fatal" /\ fatalAt' = "refresh" /\ ~rootOk
               \/ /\ TimeMap' = NewModifiedTimes(disk, source)
                  /\ IF Cardinality(DOMAIN TimeMap') # Cardinality(DOMAIN TimeMap)
                     THEN pc' = "printResults" /\ ret' = "sleep"
                     ELSE pc' = "sleep"]_vars

\* The rebuilding of tick 5 changed the number of tracked paths and
\* printResults is about to run.
C17_Witness == loopCount = 5 /\ pc = "printResults" /\ ret = "sleep"

\* The paths of the source that can be stat'ed.
StatAble == {p \in source : disk[p] # NoFile}

\* C18: a rebuilding discards every entry: afterwards the tracked paths are
\* exactly the paths of the fresh source that can be stat'ed, each with its
\* on-disk time.
C18_RefreshDiscards ==
    [][(RefreshStep /\ loopCount % 5 = 0 /\ pc' # "fatal") =>
          /\ DOMAIN TimeMap' = StatAble
          /\ \A p \in DOMAIN TimeMap' : TimeMap'[p] = disk[p]]_vars

\* A rebuilding has dropped a path that was tracked from the start and that
\* the source no longer yields.
C18_Witness ==
    /\ pc = "printResults" /\ ret = "sleep"
    /\ DOMAIN TimeMap = StatAble
    /\ \E i \in 1..Len(filepaths) :
          filepaths[i] \notin DOMAIN TimeMap /\ disk[filepaths[i]] # NoFile

\* A goroutine of a pass has not yet handed over its result.
TaskInFlight ==
    \/ orphans # {}
    \/ \E p \in DOMAIN tasks : tasks[p] # "done"

\* C19: the map is written only by main, at NewModifiedTimes, in the observe
\* loop and in the rebuilding, and neither the observe loop nor the
\* rebuilding runs while a goroutine of a pass is in flight.
C19_WrittenBetweenScans ==
    [][/\ TimeMap' # TimeMap => pc \in {"NewModifiedTimes", "observe", "refresh"}
       /\ (pc \in {"observe", "refresh"} /\ pc' # pc) => ~TaskInFlight]_vars

\* A pass started by the observe loop is over and the rebuilding that
\* followed it has run.
C19_Witness ==
    /\ pc = "sleep" /\ ret = "refresh" /\ loopCount = 0
    /\ TimeMap # EmptyMap /\ ~TaskInFlight

\* printResults has started its goroutines and has not returned.
Scanning == pc \in {"fanin", "passDone"}

RECURSIVE SortByTime(_)
SortByTime(times) ==
    IF times = <<>> THEN <<>>
    ELSE LET i == CHOOSE i \in 1..Len(times) :
                      \A j \in 1..Len(times) : times[i] <= times[j]
             rest == [k \in 1..(Len(times) - 1) |->
                         IF k < i THEN times[k] ELSE times[k + 1]]
         IN  <<times[i]>> \o SortByTime(rest)

\* The map timesToPaths after the first loop of PathsByModTime: a later
\* entry of the traversal overwrites an earlier one with the same time.
TimesToPaths(m, trav) ==
    [t \in {m[trav[i]] : i \in 1..Len(trav)} |->
        LET last == CHOOSE i \in 1..Len(trav) :
                        /\ m[trav[i]] = t
                        /\ \A j \in 1..Len(trav) : m[trav[j]] = t => j <= i
        IN  trav[last]]

\* PathsByModTime() on the map m when `range` traverses it in the order trav.
PathsByModTime(m, trav) ==
    LET times == SortByTime([i \in 1..Len(trav) |-> m[trav[i]]])
        timesToPaths == TimesToPaths(m, trav)
    IN  [i \in 1..Len(times) |-> timesToPaths[times[i]]]

InitByTime ==
    /\ \E S \in SUBSET (1..SortPaths) : TimeMap \in [S -> 1..SortMaxTime]
    /\ disk = [p \in Paths |-> NoFile]
    /\ TrackerIdle /\ SortIdle /\ MainIdle /\ FileIdle

\* PathsByModTime is called; `range` picks any traversal order.
PathsByModTimeCall ==
    /\ \E trav \in Perms(DOMAIN TimeMap) :
          /\ byTimeTrav' = trav
          /\ byTimeResult' = PathsByModTime(TimeMap, trav)
    /\ UNCHANGED <<disk, TimeMap, trackerVars, mainVars, fileVars,
                   sortTrav, sortResult>>

NextByTime == PathsByModTimeCall

SpecByTime == InitByTime /\ [][NextByTime]_vars

\* PathsByModTime has been called on TimeMap.
ByTimeCalled == byTimeTrav # <<>> \/ DOMAIN TimeMap = {}

\* C23: PathsByModTime returns every tracked path exactly once, in
\* non-decreasing order of stored time, also when two paths have the same
\* time.
C23_EachOnceByTime ==
    ByTimeCalled =>
        /\ Len(byTimeResult) = Cardinality(DOMAIN TimeMap)
        /\ \A p \in DOMAIN TimeMap :
              Cardinality({i \in 1..Len(byTimeResult) : byTimeResult[i] = p}) = 1
        /\ \A i, j \in 1..Len(byTimeResult) :
              i < j => TimeMap[byTimeResult[i]] <= TimeMap[byTimeResult[j]]

\* C21: when nothing on disk and nothing in the path source has changed
\* since a pass started, no later tick starts another pass.
C21_NoRescanWhenQuiet == ~(pc = "printResults" /\ quiet = "ticked")

\* C22: between two rebuildings the tracked paths stay among the paths the
\* latest NewModifiedTimes got from the path source: the observe loop adds
\* no path that it left out.
C22_TrackedWithinGiven == DOMAIN TimeMap \subseteq given

====
